---------------------------- MODULE Spec2Model ----------------------------
(***************************************************************************)
(* Model of the cosmic-ray rejection step of astrodither                   *)
(* (src/lib/astrodither/drizCR.py): rundrizCR / _drizCr / createCorrFile   *)
(* and setDefaults.                                                        *)
(*                                                                         *)
(* Arrays are functions over zero-based <<row, column>> index pairs, as    *)
(* numpy indexes them (axis 0 first).  Pixel values are integers; the      *)
(* whitespace-separated strings driz_cr_snr and driz_cr_scale are token    *)
(* sequences and float() maps a token to its value in tenths, so that the  *)
(* comparison np.greater(t1, t2) is decided exactly (see Greater_t1_t2).   *)
(***************************************************************************)
EXTENDS Integers, Sequences, FiniteSets, TLC

VARIABLES
    sciImage,     \* the imageObject handed to _drizCr
    paramDict,    \* configObj[step_name] with 'crbit' added (rundrizCR 64-65)
    saveFile,     \* the saveFile argument
    files,        \* the disk: file name -> content, or NoFile
    fsLog,        \* the os.remove / writeto calls made so far, in order
    pc,           \* position in rundrizCR/_drizCr
    chip,         \* the loop variable of _drizCr (line 144)
    crcorr_list,  \* line 143
    calc,         \* per chip: the arrays _drizCr computed for it, or NoCalc
    outcome,      \* how _drizCr ended: "none", "return None", "return IOError", "raise ..."
    stepEnded,    \* procSteps.endStep('Driz_CR') was reached (line 90)
    disk0,        \* the disk as it was when rundrizCR was called
    heap,         \* setDefaults: the dictionary objects, by identity
    calls,        \* setDefaults: the calls made so far
    dd,           \* flatten_dict: the dictionary it is called on
    flattened,    \* flatten_dict: what the call returned, once made
    jsonFiles,    \* the files of search_path: name |-> JSON content
    json_list,    \* get_json_files: sorted(json_list), line 110
    jpos,         \* get_json_files: position of the loop of line 110
    out_json_dict,\* get_json_files: line 109
    jpc,          \* get_json_files: "call", "loop", "returned" or "raised"
    json_filename_list, \* make_dataframe_line: its argument
    lpos,         \* make_dataframe_line: position of the loop of line 268
    header_ingested,    \* line 262
    gen_info_ingested,  \* line 263
    ingest_dict,  \* lines 264-267
    lpc,          \* make_dataframe_line: "loop" or "returned"
    mast,         \* retrieve_observation: what MAST holds for obsid, and the local directory
    suffix,       \* retrieve_observation: its argument, reassigned on line 69
    clobber,      \* retrieve_observation: its argument
    archive,      \* retrieve_observation: its argument
    data_products_by_id, \* lines 56, 70: the filtered product table
    all_images,   \* line 81
    download,     \* the table handed to Observations.download_products, once called
    local_files,  \* line 45
    mhist,        \* the suffix asked for and the branches taken at lines 66 and 77
    mpc           \* retrieve_observation: position, "returned" or "raised"

driz_vars == <<sciImage, paramDict, saveFile, files, fsLog, pc, chip,
               crcorr_list, calc, outcome, stepEnded, disk0>>
dflt_vars == <<heap, calls>>
flat_vars == <<dd, flattened>>
json_vars == <<jsonFiles, json_list, jpos, out_json_dict, jpc>>
line_vars == <<json_filename_list, lpos, header_ingested, gen_info_ingested,
               ingest_dict, lpc>>
mast_vars == <<mast, suffix, clobber, archive, data_products_by_id, all_images,
               download, local_files, mhist, mpc>>
rest_vars == <<flat_vars, json_vars, line_vars, mast_vars>>
vars == <<driz_vars, dflt_vars, rest_vars>>

-----------------------------------------------------------------------------
(* Bounds of the model *)

MaxCteGrow == 1      \* driz_cr_ctegrow ranges over 0..MaxCteGrow
MaxGrow == 2         \* driz_cr_grow ranges over 1..MaxGrow
MaxHot == 2          \* at most this many pixels of an image differ from the blot
MaxChips == 2        \* sciImage._numchips ranges over 1..MaxChips

-----------------------------------------------------------------------------
(* numpy / stsci.convolve primitives *)

Pix(shape) == (0 .. shape[1] - 1) \X (0 .. shape[2] - 1)

Abs(x) == IF x < 0 THEN -x ELSE x

\* index of the nearest pixel inside 0..n-1 (mode='nearest')
Nearest(x, n) == IF x < 0 THEN 0 ELSE IF x > n - 1 THEN n - 1 ELSE x

\* an array held as the table of its values: numpy computes an array once,
\* when it is assigned
Array(f) == f @@ <<>>

RECURSIVE SumRange(_, _, _)
SumRange(f, lo, hi) == IF lo > hi THEN 0 ELSE f[hi] + SumRange(f, lo, hi - 1)

RECURSIVE SetToSeq(_)
SetToSeq(S) ==
    IF S = {} THEN <<>>
    ELSE LET k == CHOOSE t \in S : TRUE IN <<k>> \o SetToSeq(S \ {k})

\* stsci.convolve.convolve2d(data, kernel, output, mode='nearest'): the
\* correlation of data with the kernel reversed along both axes, the data
\* extended beyond its edges by the nearest pixel.  With hr, hc half the
\* kernel's sides (rounded down),
\*   out[i, j] = SUM over a, b of kernel[kr-1-a, kc-1-b] * data[i-hr+a, j-hc+b].
\* The sum runs over the kernel's non-zero elements k = <<kr-1-a, kc-1-b>>
\* (taps); its zero elements add nothing.
convolve2d(data, shape, kernel, kshape) ==
    LET hr == kshape[1] \div 2
        hc == kshape[2] \div 2
        taps == SetToSeq({k \in DOMAIN kernel : kernel[k] # 0})
        Tap(p, k) ==
            kernel[k] * data[<<Nearest(p[1] - hr + kshape[1] - 1 - k[1], shape[1]),
                               Nearest(p[2] - hc + kshape[2] - 1 - k[2], shape[2])>>]
    IN  Array([p \in Pix(shape) |->
                  SumRange([n \in 1 .. Len(taps) |-> Tap(p, taps[n])], 1, Len(taps))])

-----------------------------------------------------------------------------
(* Parsing of the parameter strings (lines 187-195) and of BUNIT (204-211) *)

\* str.split(): the tokens of a string that are not whitespace
Split(s) == SelectSeq(s, LAMBDA t : t # " ")

\* float() of a token, in tenths
Float(tok) ==
    CASE tok = "4.0" -> 40
      [] tok = "3.0" -> 30
      [] tok = "0.5" -> 5
      [] tok = "0.4" -> 4
      [] tok = "0.0" -> 0

\* str.lower() on the BUNIT values of the model
Lower(s) ==
    CASE s = "COUNTS" -> "counts"
      [] s = "Counts" -> "counts"
      [] s = "CPS" -> "cps"
      [] s = "ELECTRONS" -> "electrons"
      [] OTHER -> s

\* lines 205-211: the exposure-time multiplier, or ValueError
Expmult_swapped(ch) ==
    IF Lower(ch.in_units) = "counts" THEN [value |-> ch.exptime]
    ELSE IF Lower(ch.in_units) = "cps" THEN [value |-> 1]
    ELSE [raise |-> "ValueError"]

Expmult_default(ch) ==
    IF Lower(ch.in_units) = "cps" THEN [value |-> ch.exptime]
    ELSE [value |-> 1]

Expmult(ch) ==
    IF Lower(ch.in_units) = "counts" THEN [value |-> 1]
    ELSE IF Lower(ch.in_units) = "cps" THEN [value |-> ch.exptime]
    ELSE [raise |-> "ValueError"]

-----------------------------------------------------------------------------
(* The noise model and the two thresholding passes (lines 213-246) *)

\* L > s * sqrt(X) for X >= 0, decided without taking the root
GreaterThanRoot(L, s, X) ==
    IF s >= 0 THEN L > 0 /\ L * L > s * s * X
    ELSE L >= 0 \/ L * L < s * s * X

\* np.greater(t1, t2) of lines 215-221 (and 236-243) at one pixel, with
\*   t1 = |input - blot|
\*   ta = sqrt(gain * |blot * expmult + backg * expmult| + rn * rn)
\*   tb = mult * deriv + snr * ta / gain
\*   t2 = tb / expmult
\* mult and snr are in tenths, gain and expmult positive, so
\*   t1 > t2  <=>  10 * t1 * expmult * gain - mult * deriv * gain > snr * ta.
Greater_t1_t2(input, blot, deriv, gain, rn, backg, expmult, mult, snr) ==
    LET t1 == Abs(input - blot)
        ta2 == gain * Abs(blot * expmult + backg * expmult) + rn * rn
    IN  GreaterThanRoot(10 * t1 * expmult * gain - mult * deriv * gain, snr, ta2)

\* line 243 at one pixel: np.logical_not(np.greater(xt1, xt2) & np.less(tmp2, 9))
crMask_pass_or(exceeds2, tmp2val) == ~(exceeds2 \/ tmp2val < 9)

crMask_pass(exceeds2, tmp2val) == ~(exceeds2 /\ tmp2val < 9)

-----------------------------------------------------------------------------
(* Growth of the mask (lines 249-286) *)

\* line 262: np.ones((grow, grow))
cr_grow_kernel(grow) == Array([k \in Pix(<<grow, grow>>) |-> 1])

\* a tail kernel laid along the second axis instead of the first
cr_ctegrow_kernel_rows(ctegrow, ctedir) ==
    Array([k \in Pix(<<2 * ctegrow + 1, 2 * ctegrow + 1>>) |->
        IF ctedir = 1 /\ k[2] \in 0 .. ctegrow - 1 /\ k[1] = ctegrow THEN 1
        ELSE IF ctedir = -1 /\ k[2] \in ctegrow + 1 .. 2 * ctegrow /\ k[1] = ctegrow THEN 1
        ELSE 0])

\* lines 267-276: the tail kernel
cr_ctegrow_kernel(ctegrow, ctedir) ==
    Array([k \in Pix(<<2 * ctegrow + 1, 2 * ctegrow + 1>>) |->
        IF ctedir = 1 /\ k[1] \in 0 .. ctegrow - 1 /\ k[2] = ctegrow THEN 1
        ELSE IF ctedir = -1 /\ k[1] \in ctegrow + 1 .. 2 * ctegrow /\ k[2] = ctegrow THEN 1
        ELSE 0])

\* Everything _drizCr computes for one chip (lines 162-312), given the
\* science array read from the input file and the blot array read from the
\* blot file.  Masks hold 1 (good) / 0 (cosmic ray).
ComputeChip(ch, sci, blot, params) ==
    LET shape == ch.shape
        grow == params.driz_cr_grow
        ctegrow == params.driz_cr_ctegrow
        inputImage == Array([p \in Pix(shape) |-> sci[p] * ch.conversionFactor])
        blotData == Array([p \in Pix(shape) |-> blot[p] * ch.conversionFactor])
        blotDeriv == ch.blotDeriv
        SNRList == Split(params.driz_cr_snr)
        snr1 == Float(SNRList[1])
        snr2 == Float(SNRList[2])
        scaleList == Split(params.driz_cr_scale)
        mult1 == Float(scaleList[1])
        mult2 == Float(scaleList[2])
        gain == ch.effGain
        rn == ch.rdnoise
        backg == ch.subtractedSky * ch.conversionFactor
        expmult == Expmult(ch).value
        \* PART I
        tmp1 == Array([p \in Pix(shape) |->
                    IF Greater_t1_t2(inputImage[p], blotData[p], blotDeriv[p],
                                     gain, rn, backg, expmult, mult1, snr1)
                    THEN 0 ELSE 1])
        kernel == Array([k \in Pix(<<3, 3>>) |-> 1])
        tmp2 == convolve2d(tmp1, shape, kernel, <<3, 3>>)
        \* PART II
        exceeds2 == Array([p \in Pix(shape) |->
                        Greater_t1_t2(inputImage[p], blotData[p], blotDeriv[p],
                                      gain, rn, backg, expmult, mult2, snr2)])
        crMask_orig == Array([p \in Pix(shape) |->
                           IF crMask_pass(exceeds2[p], tmp2[p]) THEN 1 ELSE 0])
        \* PART III
        cr_grow_kernel_conv ==
            convolve2d(crMask_orig, shape, cr_grow_kernel(grow), <<grow, grow>>)
        cr_ctegrow_kernel_conv ==
            convolve2d(crMask_orig, shape, cr_ctegrow_kernel(ctegrow, ch.cte_dir),
                       <<2 * ctegrow + 1, 2 * ctegrow + 1>>)
        where_cr_grow_kernel_conv ==
            Array([p \in Pix(shape) |->
                      IF cr_grow_kernel_conv[p] < grow * grow THEN 0 ELSE 1])
        where_cr_ctegrow_kernel_conv ==
            Array([p \in Pix(shape) |->
                      IF cr_ctegrow_kernel_conv[p] < ctegrow THEN 0 ELSE 1])
        crMask == Array([p \in Pix(shape) |->
                      IF where_cr_ctegrow_kernel_conv[p] # 0 /\ where_cr_grow_kernel_conv[p] # 0
                      THEN 1 ELSE 0])
        \* line 297: np.bitwise_and(dqMask, crMask, dqMask)
        dqMask == Array([p \in Pix(shape) |->
                      IF ch.dqMask[p] = 1 /\ crMask[p] = 1 THEN 1 ELSE 0])
        \* line 301
        corrFile == Array([p \in Pix(shape) |->
                      IF dqMask[p] = 0 THEN blotData[p] ELSE inputImage[p]])
        \* line 312
        cr_file == Array([p \in Pix(shape) |-> IF crMask[p] # 0 THEN 1 ELSE 0])
    IN  [done |-> TRUE,
         tmp1 |-> tmp1, tmp2 |-> tmp2, exceeds2 |-> exceeds2,
         crMask_orig |-> crMask_orig,
         where_cr_grow_kernel_conv |-> where_cr_grow_kernel_conv,
         where_cr_ctegrow_kernel_conv |-> where_cr_ctegrow_kernel_conv,
         crMask |-> crMask, dqMask |-> dqMask, corrFile |-> corrFile,
         cr_file |-> cr_file]

-----------------------------------------------------------------------------
(* The disk *)

NoHdus == [e \in {} |-> 0]
Absent == [exists |-> FALSE, hdus |-> NoHdus]
SimpleFits(data) == [exists |-> TRUE, hdus |-> [e \in {<<"primary", 0>>} |-> data]]

\* os.access(name, os.F_OK)
Access(fs, name) == fs[name].exists

\* lines 320-321 and 341-342: remove the file if it exists
RemoveIfExists(fs, name) == IF Access(fs, name) THEN [fs EXCEPT ![name] = Absent] ELSE fs

RemoveLog(fs, name) == IF Access(fs, name) THEN <<<<"remove", name>>>> ELSE <<>>

\* lines 346-348: the template's HDUs with the listed extensions replaced
ReplaceHdus_sci_only(hdus, arrlist) ==
    [e \in DOMAIN hdus |->
        IF \E k \in 1 .. Len(arrlist) : arrlist[k].sciext = e
        THEN (CHOOSE a \in {arrlist[k] : k \in 1 .. Len(arrlist)} : a.sciext = e).corrFile
        ELSE hdus[e]]

ReplaceHdus(hdus, arrlist) ==
    [e \in DOMAIN hdus |->
        IF \E k \in 1 .. Len(arrlist) : arrlist[k].sciext = e
        THEN (CHOOSE a \in {arrlist[k] : k \in 1 .. Len(arrlist)} : a.sciext = e).corrFile
        ELSE IF \E k \in 1 .. Len(arrlist) : arrlist[k].dqext = e
        THEN (CHOOSE a \in {arrlist[k] : k \in 1 .. Len(arrlist)} : a.dqext = e).dqMask
        ELSE hdus[e]]

-----------------------------------------------------------------------------
(* rundrizCR (serial branch, lines 84-90) and _drizCr (lines 99-330) *)

ch == sciImage.chips[chip]
InLoop == pc = "loop" /\ chip <= sciImage.numchips

\* line 87: rundrizCR calls _drizCr(image, paramDict, saveFile); line 143
Call_drizCr ==
    /\ pc = "rundrizCR"
    /\ pc' = "loop"
    /\ chip' = 1
    /\ crcorr_list' = <<>>
    /\ UNCHANGED <<sciImage, paramDict, saveFile, files, fsLog, calc, outcome, stepEnded, disk0>>
    /\ UNCHANGED <<dflt_vars, rest_vars>>

\* line 148: a chip that is no group member is passed over
ChipNotMember ==
    /\ InLoop
    /\ ~ch.group_member
    /\ chip' = chip + 1
    /\ UNCHANGED <<sciImage, paramDict, saveFile, files, fsLog, pc, crcorr_list,
                   calc, outcome, stepEnded, disk0>>
    /\ UNCHANGED <<dflt_vars, rest_vars>>

\* lines 154-172: os.access returns False for a missing file and raises
\* nothing, so the try at 154 never takes its except branch; pyfits.open of a
\* file that cannot be opened raises IOError, and line 172 RETURNS the class.
BlotOpenOutcome == "return IOError"

ChipBlotOpenFails ==
    /\ InLoop
    /\ ch.group_member
    /\ ~Access(files, ch.blotImage)
    /\ pc' = (IF BlotOpenOutcome = "raise IOError" THEN "raised" ELSE "returned")
    /\ outcome' = BlotOpenOutcome
    /\ UNCHANGED <<sciImage, paramDict, saveFile, files, fsLog, chip, crcorr_list,
                   calc, stepEnded, disk0>>
    /\ UNCHANGED <<dflt_vars, rest_vars>>

\* lines 205-211: BUNIT is neither counts nor cps
ChipBadUnits ==
    /\ InLoop
    /\ ch.group_member
    /\ Access(files, ch.blotImage)
    /\ "raise" \in DOMAIN Expmult(ch)
    /\ pc' = "raised"
    /\ outcome' = "raise ValueError"
    /\ UNCHANGED <<sciImage, paramDict, saveFile, files, fsLog, chip, crcorr_list,
                   calc, stepEnded, disk0>>
    /\ UNCHANGED <<dflt_vars, rest_vars>>

\* line 303: whether this chip's arrays are kept for the _cor file
KeepsCorr == saveFile /\ paramDict.driz_cr_corr

\* lines 314-324: the mask file is written whatever saveFile is
WritesMask_if_saveFile == saveFile

WritesMask == TRUE

\* lines 162-324: one group-member chip is processed
ChipProcess ==
    /\ InLoop
    /\ ch.group_member
    /\ Access(files, ch.blotImage)
    /\ "value" \in DOMAIN Expmult(ch)
    /\ LET exten == <<"sci", chip>>
           sci == files[sciImage.filename].hdus[exten]
           blot == files[ch.blotImage].hdus[<<"primary", 0>>]
           c == ComputeChip(ch, sci, blot, paramDict)
       IN  /\ calc' = [calc EXCEPT ![chip] = c]
           /\ crcorr_list' =
                 IF KeepsCorr
                 THEN Append(crcorr_list, [sciext |-> exten, corrFile |-> c.corrFile,
                                           dqext |-> ch.dq_extn, dqMask |-> c.dqMask])
                 ELSE crcorr_list
           /\ IF WritesMask
              THEN /\ files' = [RemoveIfExists(files, ch.crmaskImage)
                                  EXCEPT ![ch.crmaskImage] = SimpleFits(c.cr_file)]
                   /\ fsLog' = fsLog \o RemoveLog(files, ch.crmaskImage)
                                     \o <<<<"create", ch.crmaskImage>>>>
              ELSE UNCHANGED <<files, fsLog>>
    /\ chip' = chip + 1
    /\ UNCHANGED <<sciImage, paramDict, saveFile, pc, outcome, stepEnded, disk0>>
    /\ UNCHANGED <<dflt_vars, rest_vars>>

\* lines 326-330 and createCorrFile (333-350): after the last chip
AfterLoop ==
    /\ pc = "loop"
    /\ chip > sciImage.numchips
    /\ IF saveFile /\ paramDict.driz_cr_corr
       THEN LET outfile == sciImage.crcorImage
                ftemplate == files[sciImage.filename]
            IN  /\ files' = [RemoveIfExists(files, outfile) EXCEPT ![outfile] =
                               [exists |-> TRUE,
                                hdus |-> ReplaceHdus(ftemplate.hdus, crcorr_list)]]
                /\ fsLog' = fsLog \o RemoveLog(files, outfile) \o <<<<"create", outfile>>>>
       ELSE UNCHANGED <<files, fsLog>>
    /\ pc' = "returned"
    /\ outcome' = "return None"
    /\ UNCHANGED <<sciImage, paramDict, saveFile, chip, crcorr_list, calc, stepEnded, disk0>>
    /\ UNCHANGED <<dflt_vars, rest_vars>>

\* lines 89-90: _drizCr returned, whatever it returned; the step is closed
rundrizCR_endStep ==
    /\ pc = "returned"
    /\ pc' = "done"
    /\ stepEnded' = TRUE
    /\ UNCHANGED <<sciImage, paramDict, saveFile, files, fsLog, chip, crcorr_list,
                   calc, outcome, disk0>>
    /\ UNCHANGED <<dflt_vars, rest_vars>>

-----------------------------------------------------------------------------
(* setDefaults.  A dictionary is a function from its keys to its values; the
   numbers among the default values are written as strings, so that a
   dictionary holds values of one kind.  Dictionaries are objects of the heap:
   the one bound to the default argument of setDefaults, the caller's
   configObj, and the paramDict that the n-th call builds. *)

MaxCalls == 2

EmptyDict == [k \in {} |-> ""]
DefaultArg == <<"default", 0>>
ConfigObj == <<"config", 0>>
NewDict(n) == <<"paramDict", n>>
Objects == {DefaultArg, ConfigObj} \cup {NewDict(n) : n \in 1 .. MaxCalls + 1}

Defaults ==
    [gain |-> "7", grow |-> "1", ctegrow |-> "0", rn |-> "5",
     snr |-> "4.0 3.0", scale |-> "0.5 0.4", backg |-> "0", expkey |-> "exptime"]

\* for key in configObj: paramDict[key] = configObj[key]
Update(paramDict0, configObj) ==
    [k \in DOMAIN paramDict0 \cup DOMAIN configObj |->
        IF k \in DOMAIN configObj THEN configObj[k] ELSE paramDict0[k]]

\* the defaults written into the argument, which is returned
setDefaults_inplace(h, configObj, new) ==
    [heap |-> [h EXCEPT ![configObj] = Update(Defaults, h[configObj])],
     return |-> configObj]

\* the heap after setDefaults(configObj) and the object it returns
setDefaults(h, configObj, new) ==
    [heap |-> [h EXCEPT ![new] =
                  IF Cardinality(DOMAIN h[configObj]) # 0
                  THEN Update(Defaults, h[configObj])
                  ELSE Defaults],
     return |-> new]

Call_setDefaults(arg) ==
    /\ Len(calls) < MaxCalls
    /\ LET r == setDefaults(heap, arg, NewDict(Len(calls) + 1))
       IN  /\ heap' = r.heap
           /\ calls' = Append(calls, [arg |-> arg, argBefore |-> heap[arg],
                                      argAfter |-> r.heap[arg],
                                      return |-> r.return,
                                      returned |-> r.heap[r.return]])
    /\ UNCHANGED <<driz_vars, rest_vars>>

\* setDefaults(configObj)
Call_setDefaults_configObj == Call_setDefaults(ConfigObj)

\* setDefaults()
Call_setDefaults_noarg == Call_setDefaults(DefaultArg)

\* the caller changes a dictionary that setDefaults returned
CallerEditsResult ==
    /\ \E i \in DOMAIN calls : \E k \in {"gain", "extra"} :
          /\ heap[calls[i].return] = calls[i].returned
          /\ heap' = [heap EXCEPT ![calls[i].return] =
                         Update(@, [j \in {k} |-> "edited"])]
    /\ UNCHANGED calls
    /\ UNCHANGED <<driz_vars, rest_vars>>

Heap0(config) ==
    [o \in Objects |-> IF o = ConfigObj THEN config ELSE EmptyDict]

ConfigKeys == {"gain", "snr", "extra"}
Configs == UNION {[K -> {"2", "x"}] : K \in SUBSET ConfigKeys}

-----------------------------------------------------------------------------
(* The JSON harvester (diagnostic_json_harvester.py).  A string is the
   sequence of its characters.  A dictionary is the sequence of its items
   [key, value] in insertion order, its keys distinct; a JSON value is a leaf
   or a dictionary. *)

MaxDepth == 2
MaxWidth == 2

Dot == <<".">>
NoItems == <<>>
Leaf(v) == [isdict |-> FALSE, leaf |-> v, items |-> NoItems]
Dict(items) == [isdict |-> TRUE, leaf |-> 0, items |-> items]
Item(k, v) == [key |-> k, value |-> v]

DictKeys(d) == {d[i].key : i \in DOMAIN d}
DictGet(d, k) == d[CHOOSE i \in DOMAIN d : d[i].key = k].value

\* d[k] = v: an existing key keeps its place
DictPut(d, k, v) ==
    IF k \in DictKeys(d)
    THEN [i \in DOMAIN d |-> IF d[i].key = k THEN Item(k, v) ELSE d[i]]
    ELSE Append(d, Item(k, v))

\* the dictionary built from the items of a comprehension, in order
RECURSIVE DictOf(_)
DictOf(items) ==
    IF items = <<>> THEN <<>>
    ELSE DictPut(DictOf(SubSeq(items, 1, Len(items) - 1)),
                 items[Len(items)].key, items[Len(items)].value)

\* diagnostic_json_harvester.py lines 75-78
RECURSIVE flatten_dict(_, _, _)
flatten_dict(d, separator, prefix) ==
    IF d.isdict
    THEN LET Inner(n) == flatten_dict(d.items[n].value, separator, d.items[n].key)
             Keyed(n) == [i \in DOMAIN Inner(n) |->
                             Item(IF prefix # <<>>
                                  THEN prefix \o separator \o Inner(n)[i].key
                                  ELSE Inner(n)[i].key,
                                  Inner(n)[i].value)]
             RECURSIVE Pairs(_)
             Pairs(n) == IF n = 0 THEN <<>> ELSE Pairs(n - 1) \o Keyed(n)
         IN  DictOf(Pairs(Len(d.items)))
    ELSE <<Item(prefix, d)>>

Call_flatten_dict ==
    /\ ~flattened.called
    /\ flattened' = [called |-> TRUE, result |-> flatten_dict(dd, Dot, <<>>)]
    /\ UNCHANGED dd
    /\ UNCHANGED <<driz_vars, dflt_vars, json_vars, line_vars, mast_vars>>

\* the dictionaries flatten_dict is called on
JsonKeys == {<<>>, <<"a">>, <<"b">>, <<"a", ".", "b">>}
JsonLeaves == {1, 2}

ItemSeqs(values) ==
    UNION {{s \in [1 .. n -> [key : JsonKeys, value : values]] :
                \A i \in 1 .. n : \A j \in 1 .. n : s[i].key = s[j].key => i = j}
           : n \in 0 .. MaxWidth}

RECURSIVE JsonDicts(_)
JsonDicts(depth) ==
    LET leaves == {Leaf(v) : v \in JsonLeaves}
        values == IF depth <= 1 THEN leaves ELSE leaves \cup JsonDicts(depth - 1)
    IN  {Dict(s) : s \in ItemSeqs(values)}

NotCalled == [called |-> FALSE, result |-> <<>>]
FlatIdle == dd = Dict(<<>>) /\ flattened = NotCalled

-----------------------------------------------------------------------------
(* get_json_files (lines 83-124) *)

MaxFiles == 3

\* the characters of the file names, in code point order
Alphabet ==
    <<"-", ".", "/", "B", "_", "a", "b", "c", "d", "e", "g", "i", "j", "l", "m",
      "n", "o", "p", "r", "s", "t", "u", "v", "x", "y">>
Ord(c) == CHOOSE i \in DOMAIN Alphabet : Alphabet[i] = c

\* s < t for strings
RECURSIVE StrLess(_, _)
StrLess(s, t) ==
    IF t = <<>> THEN FALSE
    ELSE IF s = <<>> THEN TRUE
    ELSE IF s[1] # t[1] THEN Ord(s[1]) < Ord(t[1])
    ELSE StrLess(Tail(s), Tail(t))

\* the list left as glob returned it
sorted_asis(list) == list

\* sorted(list)
RECURSIVE sorted(_)
sorted(list) ==
    IF list = <<>> THEN <<>>
    ELSE LET rest == sorted(Tail(list))
             before == SelectSeq(rest, LAMBDA x : ~StrLess(list[1], x))
             after == SelectSeq(rest, LAMBDA x : StrLess(list[1], x))
         IN  before \o <<list[1]>> \o after

EndsWith(s, ending) ==
    Len(s) >= Len(ending) /\ SubSeq(s, Len(s) - Len(ending) + 1, Len(s)) = ending

\* fnmatch of a file name against "*_svm_*.json"; glob's * skips hidden files
MatchesSvmJson(name) ==
    /\ EndsWith(name, <<".", "j", "s", "o", "n">>)
    /\ \E i \in 1 .. Len(name) - 9 : SubSeq(name, i, i + 4) = <<"_", "s", "v", "m", "_">>
    /\ name[1] # "."

search_path == <<"d">>
path_join(dir, name) == dir \o <<"/">> \o name

\* glob.glob(search_string): the matching paths, in the order order
glob(fs, order) ==
    SelectSeq([i \in DOMAIN order |-> path_join(search_path, order[i])],
              LAMBDA pth : \E name \in DOMAIN fs :
                  pth = path_join(search_path, name) /\ MatchesSvmJson(name))

\* du.read_json_file(json_filename)
read_json_file(fs, json_filename) ==
    fs[CHOOSE name \in DOMAIN fs : path_join(search_path, name) = json_filename]

Orders(S) == {o \in [1 .. Cardinality(S) -> S] : \A i, j \in DOMAIN o : o[i] = o[j] => i = j}

\* lines 104-110 and 120-123
Call_get_json_files ==
    /\ jpc = "call"
    /\ \E order \in Orders(DOMAIN jsonFiles) :
          LET found == glob(jsonFiles, order)
          IN  IF found # <<>>
              THEN /\ json_list' = sorted(found)
                   /\ jpc' = "loop"
              ELSE /\ json_list' = <<>>
                   /\ jpc' = "raised"
    /\ jpos' = 1
    /\ out_json_dict' = <<>>
    /\ UNCHANGED jsonFiles
    /\ UNCHANGED <<driz_vars, dflt_vars, flat_vars, line_vars, mast_vars>>

\* lines 110-117, one file
get_json_files_loop ==
    /\ jpc = "loop"
    /\ jpos <= Len(json_list)
    /\ LET json_filename == json_list[jpos]
           json_data == read_json_file(jsonFiles, json_filename)
           dataframe_idx == DictGet(json_data.general_information, <<"dataframe_index">>)
       IN  out_json_dict' =
               IF dataframe_idx \in DictKeys(out_json_dict)
               THEN DictPut(out_json_dict, dataframe_idx,
                            Append(DictGet(out_json_dict, dataframe_idx), json_filename))
               ELSE DictPut(out_json_dict, dataframe_idx, <<json_filename>>)
    /\ jpos' = jpos + 1
    /\ UNCHANGED <<jsonFiles, json_list, jpc>>
    /\ UNCHANGED <<driz_vars, dflt_vars, flat_vars, line_vars, mast_vars>>

\* line 124
get_json_files_return ==
    /\ jpc = "loop"
    /\ jpos > Len(json_list)
    /\ jpc' = "returned"
    /\ UNCHANGED <<jsonFiles, json_list, jpos, out_json_dict>>
    /\ UNCHANGED <<driz_vars, dflt_vars, flat_vars, line_vars, mast_vars>>

\* the files of the search path
SvmName(root, kind) == root \o <<"_", "s", "v", "m", "_">> \o kind \o <<".", "j", "s", "o", "n">>
SvmNames == {SvmName(root, kind) : root \in {<<"a">>, <<"B">>, <<"a", "b">>},
                                   kind \in {<<"x">>, <<"y">>}}
OtherNames == {<<"a", "_", "s", "v", "m", ".", "j", "s", "o", "n">>,
               <<"a", "_", "s", "v", "m", "_", "x", ".", "t", "x", "t">>}
Indexes == {<<"i", "1">>, <<"i", "2">>}

JsonFile(idx) ==
    [header |-> <<>>,
     general_information |-> <<Item(<<"dataframe_index">>, idx)>>,
     data |-> Dict(<<>>), descriptions |-> Dict(<<>>), units |-> Dict(<<>>)]

Directories ==
    UNION {[D -> {JsonFile(idx) : idx \in Indexes}]
              : D \in {D \in SUBSET (SvmNames \cup OtherNames) : Cardinality(D) <= MaxFiles}}

JsonIdle ==
    /\ jsonFiles = <<>>
    /\ json_list = <<>>
    /\ jpos = 0
    /\ out_json_dict = <<>>
    /\ jpc = "idle"

-----------------------------------------------------------------------------
(* make_dataframe_line (lines 243-327).  The names of the sections and the
   longer fixed strings are written as one piece of a string each. *)

MaxList == 2

\* an astropy Table, of at least one column: its columns by name
Table(cols) == [isdict |-> FALSE, leaf |-> 0, items |-> cols]
IsTable(v) == ~v.isdict /\ v.items # NoItems
\* [column.tolist()]
ListOf(col) == [isdict |-> FALSE, leaf |-> col.leaf, items |-> <<Item(<<"[]">>, col)>>]
\* ">>>UNDEFINED<<<"
UNDEFINED == Leaf(0)

\* line 297: fd_key.replace(" ", "_")
replace_space(str) == [i \in DOMAIN str |-> IF str[i] = " " THEN "_" ELSE str[i]]

\* lines 271-276
title_suffix(json_filename) ==
    IF EndsWith(json_filename, <<"_point-cat_svm_compare_sourcelists.json">>)
    THEN <<"hap_vs_hla_point_">>
    ELSE IF EndsWith(json_filename, <<"_segment-cat_svm_compare_sourcelists.json">>)
    THEN <<"hap_vs_hla_segment_">>
    ELSE <<>>

\* lines 31-50
filter_header_info(unfiltered_header) == unfiltered_header

\* d[prefix + key] = value for the items of a section, in order (lines 281-282, 287-288)
RECURSIVE IngestSection(_, _, _)
IngestSection(d, prefix, items) ==
    IF items = <<>> THEN d
    ELSE IngestSection(DictPut(d, prefix \o items[1].key, items[1].value),
                       prefix, Tail(items))

\* flattened[key], or the placeholder of the except branch
Lookup(flat, key) == IF key \in DictKeys(flat) THEN DictGet(flat, key) ELSE UNDEFINED

\* lines 296-326 for one key of flattened_data
IngestItem(ing, title, fd, flattened_descriptions, flattened_units) ==
    LET ingest_key == replace_space(fd.key)
        RECURSIVE Columns(_, _)
        Columns(acc, cols) ==
            IF cols = <<>> THEN acc
            ELSE LET id_key == title \o ingest_key \o Dot \o cols[1].key
                     src_key == title \o fd.key \o Dot \o cols[1].key
                 IN  Columns([data |-> DictPut(acc.data, id_key, ListOf(cols[1].value)),
                              descriptions |-> DictPut(acc.descriptions, id_key,
                                                       Lookup(flattened_descriptions, src_key)),
                              units |-> DictPut(acc.units, id_key,
                                                Lookup(flattened_units, src_key))],
                             Tail(cols))
    IN  IF IsTable(fd.value)
        THEN Columns(ing, fd.value.items)
        ELSE LET id_key == title \o ingest_key
             IN  [data |-> DictPut(ing.data, id_key, fd.value),
                  descriptions |-> DictPut(ing.descriptions, id_key,
                                           Lookup(flattened_descriptions, fd.key)),
                  units |-> DictPut(ing.units, id_key, Lookup(flattened_units, fd.key))]

\* lines 295-326
RECURSIVE IngestData(_, _, _, _, _)
IngestData(ing, title, flattened_data, flattened_descriptions, flattened_units) ==
    IF flattened_data = <<>> THEN ing
    ELSE IngestData(IngestItem(ing, title, flattened_data[1],
                               flattened_descriptions, flattened_units),
                    title, Tail(flattened_data), flattened_descriptions, flattened_units)

HeaderPrefix == <<"header", ".">>
GenInfoPrefix == <<"gen", "_", "info", ".">>

\* lines 279, 286: the sections are ingested while the flag is not set
IngestsSections(ingested) == ~ingested

\* lines 268-326, one file
make_dataframe_line_loop ==
    /\ lpc = "loop"
    /\ lpos <= Len(json_filename_list)
    /\ LET json_filename == json_filename_list[lpos]
           json_data == read_json_file(jsonFiles, json_filename)
           with_header ==
               IF IngestsSections(header_ingested)
               THEN IngestSection(ingest_dict.data, HeaderPrefix,
                                  filter_header_info(json_data.header))
               ELSE ingest_dict.data
           with_gen_info ==
               IF IngestsSections(gen_info_ingested)
               THEN IngestSection(with_header, GenInfoPrefix, json_data.general_information)
               ELSE with_header
       IN  ingest_dict' =
               IngestData([ingest_dict EXCEPT !.data = with_gen_info],
                          title_suffix(json_filename),
                          flatten_dict(json_data.data, Dot, <<>>),
                          flatten_dict(json_data.descriptions, Dot, <<>>),
                          flatten_dict(json_data.units, Dot, <<>>))
    /\ header_ingested' = TRUE
    /\ gen_info_ingested' = TRUE
    /\ lpos' = lpos + 1
    /\ UNCHANGED <<json_filename_list, lpc>>
    /\ UNCHANGED <<driz_vars, dflt_vars, flat_vars, json_vars, mast_vars>>

\* line 327
make_dataframe_line_return ==
    /\ lpc = "loop"
    /\ lpos > Len(json_filename_list)
    /\ lpc' = "returned"
    /\ UNCHANGED <<json_filename_list, lpos, header_ingested, gen_info_ingested, ingest_dict>>
    /\ UNCHANGED <<driz_vars, dflt_vars, flat_vars, json_vars, mast_vars>>

NoIngest == [data |-> <<>>, descriptions |-> <<>>, units |-> <<>>]

LineIdle ==
    /\ json_filename_list = <<>>
    /\ lpos = 0
    /\ header_ingested = FALSE
    /\ gen_info_ingested = FALSE
    /\ ingest_dict = NoIngest
    /\ lpc = "idle"

\* the files of one DataFrame index
LineNames ==
    {<<"a", "_", "s", "v", "m", "_", "x", ".", "j", "s", "o", "n">>,
     <<"a", "_point-cat_svm_compare_sourcelists.json">>,
     <<"a", "_segment-cat_svm_compare_sourcelists.json">>}

Headers ==
    {<<Item(<<"X">>, Leaf(1))>>,
     <<Item(<<"X">>, Leaf(2)), Item(<<"Y">>, Leaf(1))>>}
GenInfos ==
    {<<Item(<<"dataframe_index">>, Leaf(1))>>,
     <<Item(<<"dataframe_index">>, Leaf(1)), Item(<<"visit">>, Leaf(2))>>}
DataSections ==
    {Dict(<<>>),
     Dict(<<Item(<<"n">>, Leaf(1))>>),
     Dict(<<Item(<<"m", " ", "n">>, Dict(<<Item(<<"k">>, Leaf(2))>>))>>),
     Dict(<<Item(<<"t">>, Table(<<Item(<<"c">>, Leaf(2))>>))>>),
     Dict(<<Item(<<"header">>, Dict(<<Item(<<"X">>, Leaf(1))>>))>>),
     Dict(<<Item(<<"gen", " ", "info">>, Dict(<<Item(<<"visit">>, Leaf(1))>>))>>)}

\* the descriptions (or units) that go with a data section
RECURSIVE Describe(_)
Describe(v) ==
    IF v.isdict \/ IsTable(v)
    THEN Dict([i \in DOMAIN v.items |-> Item(v.items[i].key, Describe(v.items[i].value))])
    ELSE Leaf(1)

LineFiles ==
    {[header |-> h, general_information |-> g, data |-> d,
      descriptions |-> IF described THEN Describe(d) ELSE Dict(<<>>),
      units |-> IF described THEN Describe(d) ELSE Dict(<<>>)]
        : h \in Headers, g \in GenInfos, d \in DataSections, described \in BOOLEAN}

-----------------------------------------------------------------------------
(* retrieve_observation (astroquery_utils.py lines 16-132).  A table is the
   sequence of its rows; a path is the sequence of its components. *)

MaxProducts == 3

\* bool(table): a table is true when it has rows
Truth(table) == Len(table) # 0

\* Observations.filter_products(dpobs, productSubGroupDescription=suffix,
\*                              extension='fits', mrp_only=False)
filter_products(dpobs, subgroups) ==
    SelectSeq(dpobs, LAMBDA row : row.productSubGroupDescription \in subgroups
                                  /\ row.extension = "fits")

RemoveRows(table, rows) ==
    LET keep == {i \in DOMAIN table : i - 1 \notin rows}
        RECURSIVE Kept(_)
        Kept(n) == IF n = 0 THEN <<>>
                   ELSE IF n \in keep THEN Append(Kept(n - 1), table[n]) ELSE Kept(n - 1)
    IN  Kept(Len(table))

\* table.insert_row(index, row), index counted from 0
insert_row(table, index, row) ==
    IF index >= Len(table) THEN Append(table, row)
    ELSE SubSeq(table, 1, index) \o <<row>> \o SubSeq(table, index + 1, Len(table))

\* Observations.download_products: one manifest row per product
download_products(table) ==
    [i \in DOMAIN table |->
        [Local_Path |-> <<".", "mastDownload", table[i].productFilename>>,
         Status |-> "COMPLETE"]]

basename(pth) == <<pth[Len(pth)]>>

\* lines 98-108: the rows skipped as already on disk are put back as LOCAL
\* rows, in ascending order; with an empty manifest all_images is returned
RECURSIVE InsertLocal(_, _, _)
InsertLocal(manifest, rows, images) ==
    IF rows = <<>> THEN [manifest |-> manifest, early |-> FALSE]
    ELSE IF ~Truth(manifest) THEN [manifest |-> manifest, early |-> TRUE]
    ELSE InsertLocal(insert_row(manifest, rows[1],
                                [Local_Path |-> <<images[rows[1] + 1]>>, Status |-> "LOCAL"]),
                     Tail(rows), images)

\* lines 45-53: the query returned no observation
retrieve_no_results ==
    /\ mpc = "query"
    /\ ~Truth(mast.obs_table)
    /\ mpc' = "returned"
    /\ UNCHANGED <<mast, suffix, clobber, archive, data_products_by_id, all_images,
                   download, local_files, mhist>>
    /\ UNCHANGED <<driz_vars, dflt_vars, flat_vars, json_vars, line_vars>>

\* lines 55-60
retrieve_filter ==
    /\ mpc = "query"
    /\ Truth(mast.obs_table)
    /\ data_products_by_id' = filter_products(mast.dpobs, suffix)
    /\ mpc' = "filtered"
    /\ UNCHANGED <<mast, suffix, clobber, archive, all_images, download, local_files, mhist>>
    /\ UNCHANGED <<driz_vars, dflt_vars, flat_vars, json_vars, line_vars>>

\* lines 66-73: if data_products_by_id: look for FLT instead
retrieve_fallback ==
    /\ mpc = "filtered"
    /\ Truth(data_products_by_id)
    /\ suffix' = {"FLT"}
    /\ data_products_by_id' = filter_products(mast.dpobs, {"FLT"})
    /\ mhist' = [mhist EXCEPT !.fallback = TRUE]
    /\ mpc' = "fallback"
    /\ UNCHANGED <<mast, clobber, archive, all_images, download, local_files>>
    /\ UNCHANGED <<driz_vars, dflt_vars, flat_vars, json_vars, line_vars>>

\* line 66, the condition false
retrieve_no_fallback ==
    /\ mpc = "filtered"
    /\ ~Truth(data_products_by_id)
    /\ mpc' = "download"
    /\ UNCHANGED <<mast, suffix, clobber, archive, data_products_by_id, all_images,
                   download, local_files, mhist>>
    /\ UNCHANGED <<driz_vars, dflt_vars, flat_vars, json_vars, line_vars>>

\* lines 77-80: if data_products_by_id: return local_files
retrieve_none_found ==
    /\ mpc = "fallback"
    /\ Truth(data_products_by_id)
    /\ mhist' = [mhist EXCEPT !.none_found = TRUE]
    /\ mpc' = "returned"
    /\ UNCHANGED <<mast, suffix, clobber, archive, data_products_by_id, all_images,
                   download, local_files>>
    /\ UNCHANGED <<driz_vars, dflt_vars, flat_vars, json_vars, line_vars>>

\* line 77, the condition false
retrieve_fallback_continue ==
    /\ mpc = "fallback"
    /\ ~Truth(data_products_by_id)
    /\ mpc' = "download"
    /\ UNCHANGED <<mast, suffix, clobber, archive, data_products_by_id, all_images,
                   download, local_files, mhist>>
    /\ UNCHANGED <<driz_vars, dflt_vars, flat_vars, json_vars, line_vars>>

\* lines 81-132
retrieve_download ==
    /\ mpc = "download"
    /\ LET images == [i \in DOMAIN data_products_by_id |->
                         data_products_by_id[i].productFilename]
           rows_to_remove ==
               IF clobber THEN {}
               ELSE {i - 1 : i \in {i \in DOMAIN images : images[i] \in mast.cwd}}
           table == RemoveRows(data_products_by_id, rows_to_remove)
           manifest0 == download_products(table)
           \* reversed on line 91 and again on line 99: ascending
           rows == [i \in 1 .. Cardinality(rows_to_remove) |->
                       CHOOSE r \in rows_to_remove :
                           Cardinality({q \in rows_to_remove : q < r}) = i - 1]
           put == InsertLocal(manifest0, rows, images)
           fetched == {i \in DOMAIN put.manifest : put.manifest[i].Status # "LOCAL"}
           names == [i \in DOMAIN put.manifest |->
                        IF i \in fetched THEN basename(put.manifest[i].Local_Path)
                        ELSE put.manifest[i].Local_Path]
       IN  /\ all_images' = images
           /\ data_products_by_id' = table
           /\ download' = [called |-> TRUE, products |-> table]
           /\ mast' = [mast EXCEPT !.cwd = @ \cup {table[i].productFilename : i \in DOMAIN table}]
           /\ IF put.early
              THEN \* line 102: return all_images
                   /\ local_files' = [i \in DOMAIN images |-> <<images[i]>>]
                   /\ mpc' = "returned"
              ELSE IF ~archive /\ fetched = {}
              THEN \* line 131: shutil.rmtree(None)
                   /\ local_files' = names
                   /\ mpc' = "raised"
              ELSE /\ local_files' = names
                   /\ mpc' = "returned"
    /\ UNCHANGED <<suffix, clobber, archive, mhist>>
    /\ UNCHANGED <<driz_vars, dflt_vars, flat_vars, json_vars, line_vars>>

\* what MAST may hold for the observation
Products ==
    <<[productFilename |-> "a_flc.fits", productSubGroupDescription |-> "FLC", extension |-> "fits"],
      [productFilename |-> "b_flc.fits", productSubGroupDescription |-> "FLC", extension |-> "fits"],
      [productFilename |-> "a_flt.fits", productSubGroupDescription |-> "FLT", extension |-> "fits"],
      [productFilename |-> "b_flt.fits", productSubGroupDescription |-> "FLT", extension |-> "fits"],
      [productFilename |-> "a_raw.fits", productSubGroupDescription |-> "RAW", extension |-> "fits"],
      [productFilename |-> "a_flc.jpg", productSubGroupDescription |-> "FLC", extension |-> "jpg"]>>

ProductLists ==
    {SelectSeq(Products, LAMBDA row : row \in held) :
        held \in {h \in SUBSET {Products[i] : i \in DOMAIN Products} :
                     Cardinality(h) <= MaxProducts}}

NoDownload == [called |-> FALSE, products |-> <<>>]
Hist0(requested) == [fallback |-> FALSE, none_found |-> FALSE, requested |-> requested]

MastIdle ==
    /\ mast = [obs_table |-> <<>>, dpobs |-> <<>>, cwd |-> {}]
    /\ suffix = {"FLC"}
    /\ clobber = FALSE
    /\ archive = FALSE
    /\ data_products_by_id = <<>>
    /\ all_images = <<>>
    /\ download = NoDownload
    /\ local_files = <<>>
    /\ mhist = Hist0({"FLC"})
    /\ mpc = "idle"

-----------------------------------------------------------------------------
(* The inputs of a run *)

\* The images are 3x3, or as large as the tail kernel of line 267 when that
\* is larger: stsci.convolve wants every kernel to fit inside the data.
Small == <<3, 3>>
ShapeFor(ctegrow) ==
    IF 2 * ctegrow + 1 > 3 THEN <<2 * ctegrow + 1, 2 * ctegrow + 1>> ELSE Small

Const(shape, v) == [p \in Pix(shape) |-> v]

RECURSIVE HotSets(_, _)
HotSets(k, P) ==
    IF k = 0 THEN {{}}
    ELSE LET prev == HotSets(k - 1, P) IN prev \cup {h \cup {p} : h \in prev, p \in P}

\* the arrays that are 0 but for at most MaxHot pixels, which hold a value of vals
Images(shape, vals) ==
    UNION {{[p \in Pix(shape) |-> IF p \in H THEN v[p] ELSE 0] : v \in [H -> vals]} :
              H \in HotSets(MaxHot, Pix(shape))}

FileNames(n) ==
    {<<"input", 0>>, <<"cor", 0>>} \cup {<<"blot", c>> : c \in 1 .. n}
        \cup {<<"crmask", c>> : c \in 1 .. n}

Exts(n) == {<<"sci", c>> : c \in 1 .. n} \cup {<<"dq", c>> : c \in 1 .. n}
               \cup {<<"err", c>> : c \in 1 .. n}

DefaultChip(c, shape) ==
    [group_member |-> TRUE, shape |-> shape,
     blotImage |-> <<"blot", c>>, crmaskImage |-> <<"crmask", c>>,
     dq_extn |-> <<"dq", c>>, cte_dir |-> 0,
     conversionFactor |-> 1, effGain |-> 1, rdnoise |-> 5, subtractedSky |-> 0,
     in_units |-> "counts", exptime |-> 1,
     blotDeriv |-> Const(shape, 0), dqMask |-> Const(shape, 1)]

DefaultParams ==
    [driz_cr_grow |-> 1, driz_cr_ctegrow |-> 0,
     driz_cr_snr |-> <<"4.0", " ", "3.0">>, driz_cr_scale |-> <<"0.5", " ", "0.4">>,
     driz_cr_corr |-> FALSE, crbit |-> 4096]

\* A run: the chips, the science and blot array of each (blot[c] = FALSE: no
\* blot file on disk), and whether output files of an earlier run exist.
Setup(chips, sci, blot, hasBlot, params, save, old) ==
    LET n == Len(chips)
        template == [exists |-> TRUE,
                     hdus |-> [e \in Exts(n) |->
                                  IF e[1] = "sci" THEN sci[e[2]]
                                  ELSE Const(chips[e[2]].shape, IF e[1] = "dq" THEN 64 ELSE 7)]]
        stale == SimpleFits(Const(Small, 9))
    IN  [sciImage |-> [numchips |-> n, filename |-> <<"input", 0>>,
                       crcorImage |-> <<"cor", 0>>, chips |-> chips],
         paramDict |-> params,
         saveFile |-> save,
         files |-> [f \in FileNames(n) |->
                      IF f[1] = "input" THEN template
                      ELSE IF f[1] = "blot"
                      THEN (IF hasBlot[f[2]] THEN SimpleFits(blot[f[2]]) ELSE Absent)
                      ELSE IF old THEN stale ELSE Absent]]

\* The state in which rundrizCR is called on the image of setup s
InitFrom(s) ==
    /\ sciImage = s.sciImage
    /\ paramDict = s.paramDict
    /\ saveFile = s.saveFile
    /\ files = s.files
    /\ disk0 = s.files
    /\ calc = [c \in 1 .. s.sciImage.numchips |-> [done |-> FALSE]]
    /\ fsLog = <<>>
    /\ pc = "rundrizCR"
    /\ chip = 0
    /\ crcorr_list = <<>>
    /\ outcome = "none"
    /\ stepEnded = FALSE

\* One chip, pixels 17 or 25 above a flat blot of 0: with gain 1, read noise 5
\* and no derivative the thresholds are 20 (snr 4.0) and 15 (snr 3.0).
MaskSetups ==
    \E img \in Images(Small, {17, 25}),
       snr \in {<<"4.0", " ", "3.0">>, <<"3.0", " ", "4.0">>} :
        InitFrom(Setup(<<DefaultChip(1, Small)>>, <<img>>, <<Const(Small, 0)>>, <<TRUE>>,
                       [DefaultParams EXCEPT !.driz_cr_snr = snr], TRUE, FALSE))

\* One chip, cosmic rays of 25 counts, every growth parameter; where the tail
\* kernel asks for an image larger than 3x3, grow keeps its default of 1
GrowSetups ==
    \E g \in {t \in (1 .. MaxGrow) \X (0 .. MaxCteGrow) \X {-1, 0, 1} :
                 t[1] = 1 \/ ShapeFor(t[2]) = Small} :
      \E img \in Images(ShapeFor(g[2]), {25}) :
        InitFrom(Setup(<<[DefaultChip(1, ShapeFor(g[2])) EXCEPT !.cte_dir = g[3]]>>,
                       <<img>>, <<Const(ShapeFor(g[2]), 0)>>, <<TRUE>>,
                       [DefaultParams EXCEPT !.driz_cr_grow = g[1],
                                             !.driz_cr_ctegrow = g[2]],
                       TRUE, FALSE))

\* One chip, one bright pixel, every parameter of the noise model
NoiseSetups ==
    \E n \in [units : {"counts", "Counts", "cps", "CPS"}, exptime : {2, 3},
              gain : {1, 2}, rn : {0, 5}, sky : {0, 3}, conv : {1, 2},
              deriv : {0, 4}, sci : {0, 20, 60}, blot : {0, 8},
              snr : {<<"4.0", " ", "3.0">>, <<"3.0", " ", "4.0">>},
              scale : {<<"0.5", " ", "0.4">>, <<"0.0", " ", "0.5">>}] :
        InitFrom(Setup(<<[DefaultChip(1, Small) EXCEPT
                            !.in_units = n.units, !.exptime = n.exptime,
                            !.effGain = n.gain, !.rdnoise = n.rn,
                            !.subtractedSky = n.sky, !.conversionFactor = n.conv,
                            !.blotDeriv = Const(Small, n.deriv)]>>,
                       <<[Const(Small, 0) EXCEPT ![<<1, 1>>] = n.sci]>>,
                       <<Const(Small, n.blot)>>, <<TRUE>>,
                       [DefaultParams EXCEPT !.driz_cr_snr = n.snr,
                                             !.driz_cr_scale = n.scale],
                       TRUE, FALSE))

\* Several chips, each a group member or not, with or without its blot file,
\* in counts or in an unknown unit; chip c has a cosmic ray in column
\* (c - 1) % 3 of row 0 and a pixel that its DQ mask already rejects.
ChipKinds == [gm : BOOLEAN, hasBlot : BOOLEAN, units : {"COUNTS", "electrons"}]

FileSetups ==
    \E n \in 1 .. MaxChips :
      \E kinds \in [1 .. n -> ChipKinds], f \in BOOLEAN \X BOOLEAN \X BOOLEAN :
        InitFrom(Setup([c \in 1 .. n |->
                          [DefaultChip(c, Small) EXCEPT
                              !.group_member = kinds[c].gm, !.in_units = kinds[c].units,
                              !.dqMask = [Const(Small, 1) EXCEPT ![<<2, 2>>] = 0]]],
                       [c \in 1 .. n |-> [Const(Small, 0) EXCEPT ![<<0, (c - 1) % 3>>] = 25]],
                       [c \in 1 .. n |-> Const(Small, 2)],
                       [c \in 1 .. n |-> kinds[c].hasBlot],
                       [DefaultParams EXCEPT !.driz_cr_corr = f[1]], f[2], f[3]))

InitDriz == MaskSetups \/ GrowSetups \/ NoiseSetups \/ FileSetups

Init ==
    /\ InitDriz
    /\ heap = Heap0(EmptyDict)
    /\ calls = <<>>
    /\ FlatIdle
    /\ JsonIdle
    /\ LineIdle
    /\ MastIdle

Next ==
    \/ Call_drizCr
    \/ ChipNotMember
    \/ ChipBlotOpenFails
    \/ ChipBadUnits
    \/ ChipProcess
    \/ AfterLoop
    \/ rundrizCR_endStep

Spec == Init /\ [][Next]_vars

\* setDefaults called by itself, next to an image that is not being processed
InitDefaults ==
    /\ InitFrom(Setup(<<DefaultChip(1, Small)>>, <<Const(Small, 0)>>, <<Const(Small, 0)>>,
                      <<TRUE>>, DefaultParams, TRUE, FALSE))
    /\ \E config \in Configs : heap = Heap0(config)
    /\ calls = <<>>
    /\ FlatIdle
    /\ JsonIdle
    /\ LineIdle
    /\ MastIdle

NextDefaults ==
    \/ Call_setDefaults_configObj
    \/ Call_setDefaults_noarg
    \/ CallerEditsResult

SpecDefaults == InitDefaults /\ [][NextDefaults]_vars

IdleImage ==
    InitFrom(Setup(<<DefaultChip(1, Small)>>, <<Const(Small, 0)>>, <<Const(Small, 0)>>,
                   <<TRUE>>, DefaultParams, TRUE, FALSE))

\* flatten_dict called by itself on a dictionary of depth at most MaxDepth
InitFlatten ==
    /\ IdleImage
    /\ heap = Heap0(EmptyDict)
    /\ calls = <<>>
    /\ dd \in JsonDicts(MaxDepth)
    /\ flattened = NotCalled
    /\ JsonIdle
    /\ LineIdle
    /\ MastIdle

NextFlatten == Call_flatten_dict

SpecFlatten == InitFlatten /\ [][NextFlatten]_vars

\* get_json_files called on a directory of at most MaxFiles files
InitJsonFiles ==
    /\ IdleImage
    /\ heap = Heap0(EmptyDict)
    /\ calls = <<>>
    /\ FlatIdle
    /\ jsonFiles \in Directories
    /\ json_list = <<>>
    /\ jpos = 0
    /\ out_json_dict = <<>>
    /\ jpc = "call"
    /\ LineIdle
    /\ MastIdle

NextJsonFiles ==
    \/ Call_get_json_files
    \/ get_json_files_loop
    \/ get_json_files_return

SpecJsonFiles == InitJsonFiles /\ [][NextJsonFiles]_vars

\* make_dataframe_line called on a list of at most MaxList files
InitLine ==
    /\ IdleImage
    /\ heap = Heap0(EmptyDict)
    /\ calls = <<>>
    /\ FlatIdle
    /\ \E names \in Orders(LineNames) : \E n \in 1 .. MaxList :
          \E contents \in [1 .. n -> LineFiles] :
              /\ jsonFiles = [name \in {names[i] : i \in 1 .. n} |->
                                 contents[CHOOSE i \in 1 .. n : names[i] = name]]
              /\ json_filename_list = [i \in 1 .. n |-> path_join(search_path, names[i])]
    /\ json_list = <<>>
    /\ jpos = 0
    /\ out_json_dict = <<>>
    /\ jpc = "idle"
    /\ lpos = 1
    /\ header_ingested = FALSE
    /\ gen_info_ingested = FALSE
    /\ ingest_dict = NoIngest
    /\ lpc = "loop"
    /\ MastIdle

NextLine ==
    \/ make_dataframe_line_loop
    \/ make_dataframe_line_return

SpecLine == InitLine /\ [][NextLine]_vars

\* retrieve_observation called for an observation of at most MaxProducts products
InitMast ==
    /\ IdleImage
    /\ heap = Heap0(EmptyDict)
    /\ calls = <<>>
    /\ FlatIdle
    /\ JsonIdle
    /\ LineIdle
    /\ \E dpobs \in ProductLists : \E found \in BOOLEAN :
          \E cwd \in SUBSET {"a_flc.fits", "a_flt.fits"} :
              mast = [obs_table |-> IF found /\ dpobs # <<>> THEN <<"obs">> ELSE <<>>,
                      dpobs |-> dpobs, cwd |-> cwd]
    /\ suffix \in {{"FLC"}, {"RAW"}}
    /\ clobber \in BOOLEAN
    /\ archive \in BOOLEAN
    /\ data_products_by_id = <<>>
    /\ all_images = <<>>
    /\ download = NoDownload
    /\ local_files = <<>>
    /\ mhist = Hist0(suffix)
    /\ mpc = "query"

NextMast ==
    \/ retrieve_no_results
    \/ retrieve_filter
    \/ retrieve_fallback
    \/ retrieve_no_fallback
    \/ retrieve_none_found
    \/ retrieve_fallback_continue
    \/ retrieve_download

SpecMast == InitMast /\ [][NextMast]_vars

-----------------------------------------------------------------------------
(* Properties of the masks *)

Processed == {c \in DOMAIN calc : calc[c].done}
ShapeOf(c) == sciImage.chips[c].shape

\* the pixels of the 3x3 block centred on p that lie inside the image
Block3(p, shape) == {q \in Pix(shape) : Abs(q[1] - p[1]) <= 1 /\ Abs(q[2] - p[2]) <= 1}

\* C1: before any growth a pixel has mask value 0 exactly when it exceeds the
\* second-pass threshold and some pixel of its 3x3 neighbourhood (itself
\* included, the image extended by its nearest pixel) exceeds the first-pass
\* threshold; every other pixel has mask value 1.
C1_TwoPassRejection ==
    \A c \in Processed : \A p \in Pix(ShapeOf(c)) :
        calc[c].crMask_orig[p] =
            (IF calc[c].exceeds2[p] /\ \E q \in Block3(p, ShapeOf(c)) : calc[c].tmp1[q] = 0
             THEN 0 ELSE 1)

\* a pixel below the first threshold is flagged because of a neighbour, next
\* to pixels that are not flagged
C1_Witness ==
    \E c \in Processed :
        /\ \E p \in Pix(ShapeOf(c)) : calc[c].exceeds2[p] /\ calc[c].tmp1[p] = 1
                                        /\ calc[c].crMask_orig[p] = 0
        /\ \E p \in Pix(ShapeOf(c)) : calc[c].crMask_orig[p] = 1

\* C2: with ctedir = +1 or -1 the tail step flags a pixel only if a cosmic ray
\* lies in the same column, at most ctegrow pixels away along the first axis,
\* towards larger row indices for +1 and towards smaller ones for -1.
C2_TailSameColumnWithinCtegrow ==
    \A c \in Processed :
        LET ctedir == sciImage.chips[c].cte_dir
        IN  ctedir \in {1, -1} =>
              \A p \in Pix(ShapeOf(c)) :
                  calc[c].where_cr_ctegrow_kernel_conv[p] = 0 =>
                      \E k \in 0 .. paramDict.driz_cr_ctegrow :
                          /\ <<p[1] + k * ctedir, p[2]>> \in Pix(ShapeOf(c))
                          /\ calc[c].crMask_orig[<<p[1] + k * ctedir, p[2]>>] = 0

\* the tail step flagged a pixel that is no cosmic ray itself
C2_Witness ==
    \E c \in Processed :
        /\ sciImage.chips[c].cte_dir \in {1, -1}
        /\ \E p \in Pix(ShapeOf(c)) :
              /\ calc[c].where_cr_ctegrow_kernel_conv[p] = 0
              /\ calc[c].crMask_orig[p] = 1

\* C3: with ctedir = 0 the tail step flags no pixel, whatever ctegrow is, and
\* the final mask is the radially grown mask.
C3_NoTailWhenCtedirZero ==
    \A c \in Processed :
        sciImage.chips[c].cte_dir = 0 =>
            /\ \A p \in Pix(ShapeOf(c)) : calc[c].where_cr_ctegrow_kernel_conv[p] = 1
            /\ calc[c].crMask = calc[c].where_cr_grow_kernel_conv

\* C4: with grow = 1 every pixel of the 3x3 block centred on a pixel flagged by
\* the two-pass rejection is flagged in the final mask.
C4_Grow1Masks3x3 ==
    \A c \in Processed :
        paramDict.driz_cr_grow = 1 =>
            \A p \in Pix(ShapeOf(c)) :
                calc[c].crMask_orig[p] = 0 =>
                    \A q \in Block3(p, ShapeOf(c)) : calc[c].crMask[q] = 0

-----------------------------------------------------------------------------
(* Properties of the noise model *)

\* the largest r with r * r <= n
RECURSIVE ISqrt(_)
ISqrt(n) ==
    IF n < 2 THEN n
    ELSE LET r == 2 * ISqrt(n \div 4)
         IN  IF (r + 1) * (r + 1) <= n THEN r + 1 ELSE r

\* The threshold of the claim at pixel p of chip c, for the values at position
\* i of driz_cr_scale and driz_cr_snr (given in tenths):
\*   (scale * deriv + snr * sqrt(gain * |blot*expmult + backg*expmult| + rn^2) / gain) / expmult
\* and whether |science - blot| exceeds it.  All quantities are in the units
\* the routine compares them in (after the chip's conversion factor).  With
\* N = 10 * |science - blot| * expmult * gain - scale * deriv * gain, an
\* integer, and snr >= 0:  exceeds  <=>  N > snr * sqrt(X)  <=>  N > ISqrt(snr^2 * X).
ClaimExceeds(c, p, i) ==
    LET chp == sciImage.chips[c]
        units == Lower(chp.in_units)
        expmult == IF units = "counts" THEN 1 ELSE chp.exptime
        science == files[sciImage.filename].hdus[<<"sci", c>>][p] * chp.conversionFactor
        blotv == files[chp.blotImage].hdus[<<"primary", 0>>][p] * chp.conversionFactor
        backg == chp.subtractedSky * chp.conversionFactor
        scale == Float(SelectSeq(paramDict.driz_cr_scale, LAMBDA t : t # " ")[i])
        snr == Float(SelectSeq(paramDict.driz_cr_snr, LAMBDA t : t # " ")[i])
        X == chp.effGain * Abs(blotv * expmult + backg * expmult) + chp.rdnoise * chp.rdnoise
        N == 10 * Abs(science - blotv) * expmult * chp.effGain
                - scale * chp.blotDeriv[p] * chp.effGain
    IN  N > ISqrt(snr * snr * X)

\* C5: in pass one a pixel is above the threshold computed with the first value
\* of driz_cr_snr and driz_cr_scale, in pass two with the second value of
\* each; expmult is 1 for an image in counts and the exposure time for cps.
C5_NoiseModelThresholds ==
    \A c \in Processed : \A p \in Pix(ShapeOf(c)) :
        /\ (calc[c].tmp1[p] = 0) = ClaimExceeds(c, p, 1)
        /\ calc[c].exceeds2[p] = ClaimExceeds(c, p, 2)

\* an image in cps with a derivative, where a pixel passes one threshold and
\* fails the other
C5_Witness ==
    \E c \in Processed : \E p \in Pix(ShapeOf(c)) :
        /\ Lower(sciImage.chips[c].in_units) = "cps"
        /\ sciImage.chips[c].blotDeriv[p] > 0
        /\ sciImage.chips[c].subtractedSky > 0
        /\ calc[c].tmp1[p] = 1
        /\ calc[c].exceeds2[p]

-----------------------------------------------------------------------------
(* Properties of the files *)

Chips == 1 .. sciImage.numchips
Created(name) == \E i \in DOMAIN fsLog : fsLog[i] = <<"create", name>>
CreateCount(name) == Cardinality({i \in DOMAIN fsLog : fsLog[i] = <<"create", name>>})

\* a file that was on disk when the run began is removed just before it is created
RemovedBeforeCreate(name) ==
    \A i \in DOMAIN fsLog :
        fsLog[i] = <<"create", name>> /\ disk0[name].exists =>
            i > 1 /\ fsLog[i - 1] = <<"remove", name>>

Ended == pc \in {"returned", "done", "raised"}
AllChipsProcessed == pc \in {"returned", "done"} /\ outcome = "return None"

\* C6: for every group-member chip that _drizCr processed, the mask file exists
\* under the chip's crmaskImage name, whatever saveFile is; it holds 0 where
\* the final mask flags a cosmic ray and 1 elsewhere, and a file of that name
\* that existed before was removed before the new one was created.
C6_MaskFileAlwaysWritten ==
    \A c \in Processed :
        LET name == sciImage.chips[c].crmaskImage
        IN  /\ sciImage.chips[c].group_member
            /\ Access(files, name)
            /\ Created(name)
            /\ RemovedBeforeCreate(name)
            /\ DOMAIN files[name].hdus = {<<"primary", 0>>}
            /\ \A p \in Pix(ShapeOf(c)) :
                  files[name].hdus[<<"primary", 0>>][p] =
                      (IF calc[c].crMask[p] = 0 THEN 0 ELSE 1)

\* a chip processed with saveFile false, over a mask file of an earlier run
C6_Witness ==
    \E c \in Processed :
        /\ ~saveFile
        /\ disk0[sciImage.chips[c].crmaskImage].exists
        /\ \E p \in Pix(ShapeOf(c)) : calc[c].crMask[p] = 0

\* C7: the _cor file is created only when saveFile and driz_cr_corr are both
\* true, and then once, after all chips are processed (a run that reaches the
\* end of the chip loop creates it exactly when both are true), a file of that
\* name being removed first.  For every processed group-member chip its
\* science extension holds the corrected array (the blot value where the mask
\* of its DQ extension is 0, the science value elsewhere) and its DQ extension
\* holds that mask; every other extension holds the template's data.
C7_CorrFile ==
    LET cor == sciImage.crcorImage
        wanted == saveFile /\ paramDict.driz_cr_corr
        template == files[sciImage.filename].hdus
        out == files[cor].hdus
    IN  /\ Created(cor) => wanted /\ AllChipsProcessed
        /\ AllChipsProcessed => (Created(cor) <=> wanted)
        /\ CreateCount(cor) <= 1
        /\ RemovedBeforeCreate(cor)
        /\ Created(cor) =>
              /\ Access(files, cor)
              /\ DOMAIN out = DOMAIN template
              /\ \A e \in DOMAIN template :
                    IF e[2] \in Processed /\ e[1] = "sci"
                    THEN /\ out[e] = calc[e[2]].corrFile
                         /\ \A p \in Pix(ShapeOf(e[2])) :
                               out[e][p] =
                                   (IF out[<<"dq", e[2]>>][p] = 0
                                    THEN files[sciImage.chips[e[2]].blotImage]
                                             .hdus[<<"primary", 0>>][p]
                                           * sciImage.chips[e[2]].conversionFactor
                                    ELSE template[e][p]
                                           * sciImage.chips[e[2]].conversionFactor)
                    ELSE IF e[2] \in Processed /\ e[1] = "dq"
                    THEN out[e] = calc[e[2]].dqMask
                    ELSE out[e] = template[e]

\* a _cor file written over an older one, for an image with a processed chip
\* and a chip that is no group member
C7_Witness ==
    /\ Created(sciImage.crcorImage)
    /\ disk0[sciImage.crcorImage].exists
    /\ Processed # {}
    /\ \E c \in Chips : ~sciImage.chips[c].group_member

\* C8: when the blot image of a group-member chip cannot be opened, _drizCr
\* raises IOError, and rundrizCR does not close the step.
C8_BlotFailureRaisesIOError ==
    \A c \in Chips :
        (/\ sciImage.chips[c].group_member
         /\ ~Access(files, sciImage.chips[c].blotImage)
         /\ chip = c
         /\ pc # "loop")
        => outcome = "raise IOError" /\ ~stepEnded

UnitsKnown(u) == u \in {"counts", "Counts", "COUNTS", "cps", "Cps", "CPS"}

\* C9: a group-member chip whose units are neither counts nor cps (in any
\* case), once the loop reaches it and its blot image is opened, makes _drizCr
\* raise ValueError: the loop never gets past it, no mask file is written for
\* it and no _cor file is created; and ValueError is raised for no other chip.
C9_BadUnitsRaiseValueError ==
    /\ \A c \in Chips :
          (/\ sciImage.chips[c].group_member
           /\ ~UnitsKnown(sciImage.chips[c].in_units)
           /\ Access(files, sciImage.chips[c].blotImage))
          => /\ chip <= c
             /\ ~calc[c].done
             /\ ~Created(sciImage.chips[c].crmaskImage)
             /\ files[sciImage.chips[c].crmaskImage] = disk0[sciImage.chips[c].crmaskImage]
             /\ (chip = c /\ pc # "loop") =>
                    /\ pc = "raised"
                    /\ outcome = "raise ValueError"
                    /\ ~Created(sciImage.crcorImage)
                    /\ ~stepEnded
    /\ outcome = "raise ValueError" =>
          /\ chip \in Chips
          /\ sciImage.chips[chip].group_member
          /\ ~UnitsKnown(sciImage.chips[chip].in_units)

\* ValueError raised at the second chip, after the first was processed, in a
\* run that was to write the _cor file
C9_Witness ==
    /\ outcome = "raise ValueError"
    /\ chip > 1
    /\ Processed # {}
    /\ saveFile /\ paramDict.driz_cr_corr

-----------------------------------------------------------------------------
(* Properties of setDefaults *)

\* C10: the dictionary a call of setDefaults returns holds every key of its
\* configObj with the user's value and every other default key with the
\* default value, and no other key; the call leaves its configObj as it was;
\* and a call with no argument returns the defaults, whatever calls came
\* before and whatever the caller did to the dictionaries they returned.
C10_SetDefaults ==
    /\ \A i \in DOMAIN calls :
          LET call == calls[i]
          IN  /\ \A k \in DOMAIN call.argBefore :
                    k \in DOMAIN call.returned /\ call.returned[k] = call.argBefore[k]
              /\ \A k \in DOMAIN Defaults \ DOMAIN call.argBefore :
                    k \in DOMAIN call.returned /\ call.returned[k] = Defaults[k]
              /\ DOMAIN call.returned = DOMAIN Defaults \cup DOMAIN call.argBefore
              /\ call.argAfter = call.argBefore
              /\ call.arg = DefaultArg => call.returned = Defaults
    /\ heap[ConfigObj] \in Configs
    /\ \A i \in DOMAIN calls : heap[calls[i].arg] = calls[i].argBefore

\* a call that overrides a default and adds a key, its result edited by the
\* caller, then a call with no argument
C10_Witness ==
    \E i \in DOMAIN calls : \E j \in DOMAIN calls :
        /\ i < j
        /\ calls[i].arg = ConfigObj
        /\ DOMAIN calls[i].argBefore = {"gain", "extra"}
        /\ heap[calls[i].return] # calls[i].returned
        /\ calls[j].arg = DefaultArg

-----------------------------------------------------------------------------
(* Properties of flatten_dict *)

\* the leaves of a JSON value, each with the keys that lead to it
RECURSIVE LeafPaths(_)
LeafPaths(v) ==
    IF v.isdict
    THEN UNION {{[path |-> <<v.items[n].key>> \o l.path, value |-> l.value]
                    : l \in LeafPaths(v.items[n].value)} : n \in DOMAIN v.items}
    ELSE {[path |-> <<>>, value |-> v.leaf]}

RECURSIVE AllKeys(_)
AllKeys(v) ==
    IF v.isdict
    THEN DictKeys(v.items) \cup UNION {AllKeys(v.items[n].value) : n \in DOMAIN v.items}
    ELSE {}

HasSeparator(k, sep) ==
    \E i \in 1 .. Len(k) - Len(sep) + 1 : SubSeq(k, i, i + Len(sep) - 1) = sep

RECURSIVE Join(_, _)
Join(path, sep) ==
    IF Len(path) = 1 THEN path[1]
    ELSE path[1] \o sep \o Join(Tail(path), sep)

\* C11: when no key of the input contains the separator, the flattened
\* dictionary has no dictionary value and exactly one entry per leaf of the
\* input, its key the leaf's path of keys joined by the separator and its
\* value the leaf value.
C11_FlattenOneEntryPerLeaf ==
    (flattened.called /\ \A k \in AllKeys(dd) : ~HasSeparator(k, Dot)) =>
        /\ \A i \in DOMAIN flattened.result : ~flattened.result[i].value.isdict
        /\ Len(flattened.result) = Cardinality(LeafPaths(dd))
        /\ {<<flattened.result[i].key, flattened.result[i].value.leaf>>
               : i \in DOMAIN flattened.result}
           = {<<Join(l.path, Dot), l.value>> : l \in LeafPaths(dd)}

-----------------------------------------------------------------------------
(* Properties of get_json_files *)

\* the places of a file in the lists of the returned dictionary
PlacesOf(pth) ==
    {<<k, n>> \in (DOMAIN out_json_dict) \X (1 .. MaxFiles + 1) :
        n <= Len(out_json_dict[k].value) /\ out_json_dict[k].value[n] = pth}

\* C12: every file of the search path that matches '*_svm_*.json' is in
\* exactly one list of the returned dictionary, under the key equal to its
\* dataframe_index; the lists hold nothing else, the keys are distinct and
\* the file names inside each list are in sorted order.
C12_GroupedByIndexSorted ==
    jpc = "returned" =>
        /\ \A name \in DOMAIN jsonFiles \cap SvmNames :
              /\ Cardinality(PlacesOf(path_join(search_path, name))) = 1
              /\ \A pl \in PlacesOf(path_join(search_path, name)) :
                    out_json_dict[pl[1]].key =
                        jsonFiles[name].general_information[1].value
        /\ \A k \in DOMAIN out_json_dict :
              /\ \A n \in DOMAIN out_json_dict[k].value :
                    \E name \in DOMAIN jsonFiles \cap SvmNames :
                        out_json_dict[k].value[n] = path_join(search_path, name)
              /\ \A m, n \in DOMAIN out_json_dict[k].value :
                    m < n => StrLess(out_json_dict[k].value[m], out_json_dict[k].value[n])
              /\ \A j \in DOMAIN out_json_dict :
                    out_json_dict[j].key = out_json_dict[k].key => j = k

\* three matching files in two groups, one of them of two files, the file
\* that sorts first by code point ("B...") being in it
C12_Witness ==
    /\ jpc = "returned"
    /\ Len(out_json_dict) = 2
    /\ \E k \in DOMAIN out_json_dict :
          /\ Len(out_json_dict[k].value) = 2
          /\ out_json_dict[k].value[1][3] = "B"

-----------------------------------------------------------------------------
(* Properties of make_dataframe_line *)

StartsWith(str, prefix) ==
    Len(str) >= Len(prefix) /\ SubSeq(str, 1, Len(prefix)) = prefix

\* the 'header.*' and 'gen_info.*' entries of the line
HeaderGenInfoEntries ==
    {<<ingest_dict.data[i].key, ingest_dict.data[i].value>> : i \in
        {i \in DOMAIN ingest_dict.data :
            \/ StartsWith(ingest_dict.data[i].key, HeaderPrefix)
            \/ StartsWith(ingest_dict.data[i].key, GenInfoPrefix)}}

FirstFile == read_json_file(jsonFiles, json_filename_list[1])

\* C13: once the first file of json_filename_list is processed the line has a
\* 'header.*' entry for every item of that file's header and a 'gen_info.*'
\* entry for every item of its general information, and no later file
\* changes, adds or removes a 'header.*' or 'gen_info.*' entry.
C13_HeaderGenInfoOnce ==
    /\ [](lpos >= 2 =>
            /\ \A i \in DOMAIN FirstFile.header :
                  HeaderPrefix \o FirstFile.header[i].key \in DictKeys(ingest_dict.data)
            /\ \A i \in DOMAIN FirstFile.general_information :
                  GenInfoPrefix \o FirstFile.general_information[i].key
                      \in DictKeys(ingest_dict.data))
    /\ [][lpos >= 2 => HeaderGenInfoEntries' = HeaderGenInfoEntries]_vars

-----------------------------------------------------------------------------
(* Properties of retrieve_observation *)

FitsNames(subgroups) ==
    {mast.dpobs[i].productFilename : i \in
        {i \in DOMAIN mast.dpobs :
            /\ mast.dpobs[i].productSubGroupDescription \in subgroups
            /\ mast.dpobs[i].extension = "fits"}}

\* C14: for an observation that the query found, once retrieve_observation
\* has ended: if products with the requested suffix exist there was no
\* fall-back and they are the ones handed to the download; FLT products are
\* requested in lieu of them only when none exist (and then the FLT products
\* are the ones downloaded); and the function returns an empty list without
\* downloading exactly when neither kind exists.
C14_FallbackOnlyWhenEmpty ==
    (mpc \in {"returned", "raised"} /\ Truth(mast.obs_table)) =>
        LET requested == FitsNames(mhist.requested)
            flt == FitsNames({"FLT"})
            images == {all_images[i] : i \in DOMAIN all_images}
        IN  /\ requested # {} =>
                  ~mhist.fallback /\ download.called /\ images = requested
            /\ mhist.fallback => requested = {}
            /\ (requested = {} /\ flt # {}) =>
                  mhist.fallback /\ download.called /\ images = flt
            /\ (~download.called /\ local_files = <<>>) <=> (requested = {} /\ flt = {})

=============================================================================
